---- MODULE Spec2Model ----
(***************************************************************************)
(* Payment-transaction lifecycle of the auth & payments REST API.          *)
(*                                                                         *)
(* Every HTTP request on /api/payments runs authMiddleware, then the       *)
(* route's roleMiddleware and its controller.  A controller is an async    *)
(* function: it is suspended at every await (a database operation or a     *)
(* gateway round trip), and other requests run while it is suspended.  An  *)
(* action of this module is one such piece of a request: the code from one *)
(* await to the next, together with the database operation it awaits.      *)
(***************************************************************************)
EXTENDS Integers, Sequences, FiniteSets, TLC

\* ------------------------------------------------------------------ bounds
MaxReq == 2      \* requests in flight at the same time
MaxTx == 1       \* stored transactions
MaxCreated == 2  \* stored transactions, where only initiate requests run
MaxTime == 2     \* distinct values of Date.now() seen by generateReference
MaxClock == 8    \* days the clock runs for
MaxTokens == 2   \* tokens the clients hold at the same time
MaxUsers == 4    \* stored users

ReqIds == 1..MaxReq
Timestamps == 1..MaxTime
\* crypto.randomBytes(4).toString('hex').toUpperCase()
Suffixes == {"9F3A0C7E"}

\* ------------------------------------------------------------ stored data
UserIds == {"u1", "a1"}
Roles == {"user", "admin"}
UserEmail == [u1 |-> "u1@example.com", a1 |-> "a1@example.com"]
UserName == [u1 |-> "U1", a1 |-> "A1"]
\* the _id values given to the users created by register, in order
NewIds == <<"n1", "n2", "n3", "n4">>
\* expiresIn: '7d'
TokenLifetime == 7
\* minlength: [2, 'Name must be at least 2 characters']
MinName == 2
\* maxlength: [100, 'Name cannot exceed 100 characters']
MaxName == 100
\* the bytes of its input that bcrypt.hash reads
BcryptBytes == 72
\* minlength: [6, 'Password must be at least 6 characters']
MinPassword == 6

Null == [k |-> "null"]
NoMessage == ""

\* `PAY-${timestamp}-${random}`
Reference(timestamp, random) == <<"PAY", timestamp, random>>
AllRefs == {Reference(t, x) : t \in Timestamps, x \in Suffixes}

TxStatuses == {"pending", "success", "failed"}

VARIABLES
    users,      \* the User collection: id -> [email, role, password]
    now,        \* the clock, in days
    held,       \* the tokens generateToken has signed, in the hands of clients
    secretKey,  \* process.env.PAYSTACK_SECRET_KEY, trimmed: <<>> or <<prefix, rest>>
    txs,        \* the Transaction collection, in creation order
    reqs,       \* the requests in flight: slot -> position and local variables
    wire,       \* the gateway requests sent and not yet answered
    out         \* the response the last step sent, NoResponse if it sent none

vars == <<users, now, held, secretKey, txs, reqs, wire, out>>

\* what the payment handlers read and never write
env == <<users, now, held, secretKey>>

\* ------------------------------------------------- request bodies (JSON)
\* A number n of a request body is held as h = 2n, so that halves can be told
\* from integers; NaN is the result of a failed numeric conversion.
Undefined == [t |-> "undefined"]
NaN == [t |-> "NaN"]
Num(h) == [t |-> "number", h |-> h]
\* the number Infinity, which JSON.parse returns for a literal such as 1e999
Infinity == [t |-> "infinity"]
Str(s) == [t |-> "string", s |-> s]

\* the values of req.body.amount: absent, "abc", "0x10", -1, 0, 0.5, 1, 1.5
AmountInputs ==
    {Undefined, Str("abc"), Str("0x10"),
     Num(-2), Num(0), Num(1), Num(2), Num(3)}

\* !v
Falsy(v) ==
    CASE v.t = "undefined" -> TRUE
      [] v.t = "NaN"       -> TRUE
      [] v.t = "number"    -> v.h = 0
      [] v.t = "infinity"  -> FALSE
      [] v.t = "string"    -> v.s = ""

\* Number(v), the conversion isNaN(v) and v < 1 apply
ToNumber(v) ==
    CASE v.t = "number" -> v
      [] v.t = "infinity" -> v
      [] v.t = "string" ->
            CASE v.s = "0x10" -> Num(32)
              [] v.s = ""     -> Num(0)
              [] OTHER        -> NaN
      [] OTHER -> NaN

IsNaN(v) == ToNumber(v) = NaN

\* v < 1: false when v converts to NaN
LessThanOne(v) == ToNumber(v).t = "number" /\ ToNumber(v).h < 2

\* parseFloat(v): the longest decimal prefix of String(v)
ParseFloat(v) ==
    CASE v.t = "number" -> v
      [] v.t = "infinity" -> v
      [] v.t = "string" ->
            CASE v.s = "0x10" -> Num(0)
              [] OTHER        -> NaN
      [] OTHER -> NaN

\* Math.floor
Floor(v) ==
    IF v.t = "number" THEN Num(2 * (v.h \div 2))
    ELSE IF v.t = "infinity" THEN v ELSE NaN

\* if (!amount || isNaN(amount) || amount < 1) return 400
AmountRejected(amount) == Falsy(amount) \/ IsNaN(amount) \/ LessThanOne(amount)

\* const amountInKobo = Math.floor(parseFloat(amount))
AmountInKobo(amount) == Floor(ParseFloat(amount))

\* the schema without its min validator
AmountValid_Any(n) == TRUE

\* the Transaction schema's amount: a Number that casts, min 1
AmountValid(n) == n.t = "infinity" \/ (n.t = "number" /\ n.h >= 2)

\* a stored amount that stands for Infinity, which is no integer: apart from
\* every amount a finite input is stored as
InfiniteAmount == -1

\* the amount of the stored document, in units
StoredAmount(n) == IF n.t = "infinity" THEN InfiniteAmount ELSE n.h \div 2

\* --------------------------------------------------------------- messages
MsgInvalidAmount == "Please provide a valid amount (minimum 1 kobo)."
MsgValidation == "Validation error"
MsgInitiateFailed == "Failed to initialize payment. Please try again."
MsgInitOk == "Payment initialized successfully"
MsgInitRejected == "Failed to initialize payment"
MsgInitError == "Failed to initialize payment with Paystack"
MsgNotFound == "Transaction not found."
MsgForbidden == "You do not have permission to verify this transaction."
MsgAlreadyVerified == "Transaction already verified"
MsgVerifyOk == "Transaction verified successfully"
MsgVerifyRejected == "Failed to verify transaction"
MsgVerifyError == "Failed to verify transaction with Paystack"
MsgUpstream404 == "Transaction not found. Invalid reference."
MsgNetwork ==
    "Network error: Could not reach Paystack API. Please check your internet connection."
MsgKeyNotSet == "PAYSTACK_SECRET_KEY is not set in environment variables"
MsgKeyFormat ==
    "PAYSTACK_SECRET_KEY format is invalid. It should start with sk_test_ or sk_live_"
MsgMissingData == "Missing required payment data: amount, email, or reference"
\* roleMiddleware's message, up to the list of the roles the route allows
MsgAccessDenied == "Access denied."
MsgReferenceRequired == "Transaction reference is required."
MsgNoReference == "Transaction reference is required"

\* ------------------------------------------------------------ the gateway
\* What the gateway may put in the message of a body it sends
GatewayMessages == {"Invalid key"}
\* data.status of a verified transaction
GatewayTxStatuses == {"success", "failed", "abandoned"}
\* the HTTP status of an error response
GatewayErrorCodes == {400, 404}

InitData(ref) ==
    [k |-> "initialize", reference |-> ref,
     authorization_url |-> <<"https://checkout.paystack.com", ref>>,
     access_code |-> <<"access", ref>>]
VerifyData(ref, s) == [k |-> "verify", reference |-> ref, status |-> s]
ErrorPayload(m) == [k |-> "error", error |-> m]

\* What axios hands back: a 2xx response's body, an error carrying a response
\* (4xx, 5xx), or an error carrying only the request (no response received).
Body(st, data, m) == [k |-> "body", status |-> st, data |-> data, message |-> m]
Rejections ==
    {[k |-> "error_response", code |-> c, message |-> m] :
        c \in GatewayErrorCodes, m \in GatewayMessages \cup {NoMessage}}
    \cup {[k |-> "no_response"]}
BadBodies ==
    {Body(FALSE, Null, m) : m \in GatewayMessages \cup {NoMessage}}
    \cup {Body(TRUE, Null, NoMessage)}
InitAnswers(ref) == {Body(TRUE, InitData(ref), "Authorization URL created")}
                        \cup BadBodies \cup Rejections
VerifyAnswers(ref) ==
    {Body(TRUE, VerifyData(ref, s), "Verification successful") : s \in GatewayTxStatuses}
        \cup BadBodies \cup Rejections

\* a header built from any key that is set
AuthHeaderError_AnyPrefix(key) == IF key = <<>> THEN MsgKeyNotSet ELSE NoMessage

\* getAuthHeader: the error it throws, or NoMessage when it returns the header
AuthHeaderError(key) ==
    IF key = <<>> THEN MsgKeyNotSet
    ELSE IF key[1] # "sk_test_" /\ key[1] # "sk_live_" THEN MsgKeyFormat
    ELSE NoMessage

\* initializeTransaction up to axios.post: the error thrown before any request
\* is sent, or NoMessage
InitializePrecheck(key, amount, email, reference) ==
    IF amount = 0 \/ email = "" \/ reference = <<>> THEN MsgMissingData
    ELSE AuthHeaderError(key)

\* a verifyTransaction that does not look at the key before it sends
VerifyPrecheck_KeyUnchecked(key, reference) ==
    IF reference = <<>> THEN MsgNoReference ELSE NoMessage

\* verifyTransaction up to axios.get
VerifyPrecheck(key, reference) ==
    IF reference = <<>> THEN MsgNoReference ELSE AuthHeaderError(key)

\* a catch without the fixed text for a body that has no message
InitializeThrows_Raw(answer) ==
    IF answer.k = "error_response" THEN answer.message ELSE MsgNetwork

\* initializeTransaction's catch: the message of the Error it throws
InitializeThrows(answer) ==
    IF answer.k = "error_response"
    THEN (IF answer.message # NoMessage THEN answer.message ELSE MsgInitError)
    ELSE MsgNetwork

\* a catch that treats a 404 as any other error response
VerifyThrows_No404(answer) ==
    IF answer.k = "error_response"
    THEN (IF answer.message # NoMessage THEN answer.message ELSE MsgVerifyError)
    ELSE MsgNetwork

\* verifyTransaction's catch
VerifyThrows(answer) ==
    IF answer.k = "error_response"
    THEN (IF answer.code = 404 THEN MsgUpstream404
          ELSE IF answer.message # NoMessage THEN answer.message
          ELSE MsgVerifyError)
    ELSE MsgNetwork

\* ------------------------------------------------------ secrets and tokens
\* A raw secret: its length in bytes, its first 72 bytes (head) and the bytes
\* after them (tail); bcryptjs reads the first 72 bytes of its input.
Secret(len, head, tail) == [len |-> len, head |-> head, tail |-> tail]

\* bcrypt.hash(password, salt), up to the salt
Hash(secret) == [k |-> "bcrypt", of |-> secret.head]

\* bcrypt.compare(candidatePassword, this.password)
ComparePassword(candidate, hashed) == Hash(candidate) = hashed

\* the secrets of the users the server starts with
UserSecret == [u1 |-> Secret(6, "u1pass", ""), a1 |-> Secret(6, "a1pass", "")]

\* jwt.sign({id, role}, JWT_SECRET, {expiresIn: '7d'}) at time iat
GenerateToken(id, role, iat) ==
    [k |-> "jwt", id |-> id, role |-> role, iat |-> iat, sig |-> "JWT_SECRET"]

\* the Authorization headers a client can send: none, another scheme, Bearer
\* with nothing, with a string that is no JWT, with a JWT signed with another
\* key, or with a token it holds
NoHeader == [h |-> "absent"]
BasicHeader == [h |-> "basic"]
Bearer(token) == [h |-> "bearer", token |-> token]
EmptyToken == [k |-> "empty"]
NotAJwt == [k |-> "garbage"]
Forged(token) == [token EXCEPT !.sig = "other"]
Headers ==
    {NoHeader, BasicHeader, Bearer(EmptyToken), Bearer(NotAJwt)}
        \cup {Bearer(Forged(GenerateToken(u, "admin", now))) : u \in DOMAIN users}
        \cup {Bearer(Forged(t)) : t \in held}
        \cup {Bearer(t) : t \in held}

\* a verification that does not look at the expiry
JwtVerify_NeverExpires(token) ==
    IF token.k # "jwt" \/ token.sig # "JWT_SECRET" THEN "JsonWebTokenError" ELSE "ok"

\* a verification that still accepts a token at the time of its expiry
JwtVerify_ExpiresLate(token) ==
    IF token.k # "jwt" \/ token.sig # "JWT_SECRET" THEN "JsonWebTokenError"
    ELSE IF now > token.iat + TokenLifetime THEN "TokenExpiredError"
    ELSE "ok"

\* jwt.verify(token, JWT_SECRET): the name of the error it throws, or "ok"
JwtVerify(token) ==
    IF token.k # "jwt" THEN "JsonWebTokenError"
    ELSE IF token.sig # "JWT_SECRET" THEN "JsonWebTokenError"
    ELSE IF now >= token.iat + TokenLifetime THEN "TokenExpiredError"
    ELSE "ok"

MsgNoToken ==
    "No token provided. Please include a Bearer token in the Authorization header."
MsgTokenMissing == "Token is missing."
MsgInvalidToken == "Invalid token."
MsgTokenExpired == "Token has expired. Please login again."
MsgUserNotFound == "User not found. Token may be invalid."

\* a gate that also refuses a token whose role is not the stored one
AuthMiddleware_RoleChecked(header) ==
    LET refuse(message) == [code |-> 401, message |-> message, id |-> "none"]
    IN  IF header.h # "bearer" THEN refuse(MsgNoToken)
        ELSE IF header.token = EmptyToken THEN refuse(MsgTokenMissing)
        ELSE IF JwtVerify(header.token) = "JsonWebTokenError" THEN refuse(MsgInvalidToken)
        ELSE IF JwtVerify(header.token) = "TokenExpiredError" THEN refuse(MsgTokenExpired)
        ELSE IF header.token.id \notin DOMAIN users THEN refuse(MsgUserNotFound)
        ELSE IF header.token.role # users[header.token.id].role THEN refuse(MsgInvalidToken)
        ELSE [code |-> 0, message |-> NoMessage, id |-> header.token.id]

\* authMiddleware: the status and message it responds with, or status 0 and
\* the id of the user it attaches to the request
AuthMiddleware(header) ==
    LET refuse(message) == [code |-> 401, message |-> message, id |-> "none"]
    IN  IF header.h # "bearer" THEN refuse(MsgNoToken)
        ELSE IF header.token = EmptyToken THEN refuse(MsgTokenMissing)
        ELSE IF JwtVerify(header.token) = "JsonWebTokenError" THEN refuse(MsgInvalidToken)
        ELSE IF JwtVerify(header.token) = "TokenExpiredError" THEN refuse(MsgTokenExpired)
        ELSE IF header.token.id \notin DOMAIN users THEN refuse(MsgUserNotFound)
        ELSE [code |-> 0, message |-> NoMessage, id |-> header.token.id]

\* the identities whose requests pass authMiddleware with a token in held
Bearers == {AuthMiddleware(Bearer(t)).id : t \in held} \ {"none"}

\* ------------------------------------------------------ requests, responses
\* every route open to both roles
AllowedRoles_Everyone(op) == {"user", "admin"}
\* routes that all name the role user alone
AllowedRoles_UserOnly(op) == {"user"}

\* the roles each route hands to roleMiddleware
AllowedRoles(op) == IF op = "all" THEN {"admin"} ELSE {"user", "admin"}

NoUser == [id |-> "none", email |-> "", role |-> "none"]
IdleReq == [pc |-> "idle", user |-> NoUser, arg |-> Null, doc |-> Null]

\* the :reference of a request path
RefParam(reference) == [t |-> "reference", ref |-> reference]

\* A response, with the request it answers: the route, the identity of the
\* token and the input (the body's amount, the :reference of the path)
Resp(op, by, arg, code, message, errors, data) ==
    [op |-> op, by |-> by, arg |-> arg, code |-> code, message |-> message,
     errors |-> errors, data |-> data]
NoResponse == Resp("none", "none", Null, 0, NoMessage, {}, Null)

\* a create that leaves the status to a default of failed
NewTx_Failed(id, user, amount, reference) ==
    [k |-> "tx", id |-> id, user |-> user, amount |-> amount,
     reference |-> reference, status |-> "failed", paystackData |-> Null]

\* Transaction.create({user, amount, reference, status: 'pending'})
NewTx(id, user, amount, reference) ==
    [k |-> "tx", id |-> id, user |-> user, amount |-> amount,
     reference |-> reference, status |-> "pending", paystackData |-> Null]

\* a lookup that returns the first stored document, whatever its reference
FindOne_First(store, reference) == IF Len(store) > 0 THEN store[1] ELSE Null

\* a lookup that finds nothing
FindOne_Missing(store, reference) == Null

\* Transaction.findOne({reference}): the stored document, or Null
FindOne(store, reference) ==
    IF \E i \in 1..Len(store) : store[i].reference = reference
    THEN store[CHOOSE i \in 1..Len(store) : store[i].reference = reference]
    ELSE Null

\* a save that writes the whole document back
Save_Overwrite(store, loaded, doc) == [store EXCEPT ![loaded.id] = doc]

\* a save that writes the first document of the collection
Save_First(store, loaded, doc) == [store EXCEPT ![1] = doc]

\* a save that misses the change of the Mixed path paystackData
Save_StatusOnly(store, loaded, doc) ==
    [store EXCEPT ![loaded.id] =
        [@ EXCEPT !.status = IF doc.status # loaded.status THEN doc.status ELSE @]]

\* a save that is refused when the stored document is no longer the loaded one
Save_IfUnchanged(store, loaded, doc) ==
    IF store[loaded.id] = loaded THEN [store EXCEPT ![loaded.id] = doc] ELSE store

\* transaction.save() of a loaded document: the paths whose value was changed
\* since the document was loaded are written, the others are left as stored
Save(store, loaded, doc) ==
    [store EXCEPT ![loaded.id] =
        [@ EXCEPT !.status = IF doc.status # loaded.status THEN doc.status ELSE @,
                  !.paystackData = IF doc.paystackData # loaded.paystackData
                                   THEN doc.paystackData ELSE @]]

\* the owner check without the exemption of admins
NotPermitted_OwnerOnly(doc, user) == doc.user # user.id

\* the owner check of verifyPayment
NotPermitted(doc, user) == doc.user # user.id /\ user.role # "admin"

\* a short circuit on every status that a gateway answer has set
AlreadyVerified_Final(doc) == doc.status \in {"success", "failed"}

\* the short circuit left out
AlreadyVerified_Never(doc) == FALSE

\* the short circuit with its test inverted
AlreadyVerified_Pending(doc) == doc.status = "pending"

\* the short circuit of verifyPayment
AlreadyVerified(doc) == doc.status = "success"

\* the status verifyPayment derives from the gateway's data.status
MapStatus(s) ==
    IF s = "success" THEN "success"
    ELSE IF s = "failed" THEN "failed"
    ELSE "pending"

\* .select('-paystackData')
WithoutPaystackData(tx) ==
    [k |-> "tx", id |-> tx.id, user |-> tx.user, amount |-> tx.amount,
     reference |-> tx.reference, status |-> tx.status]

\* a find that sorts by createdAt ascending
NewestFirst_OldestFirst(store, owner) ==
    LET hit == SelectSeq(store, LAMBDA t : t.user = owner)
    IN  [n \in 1..Len(hit) |-> WithoutPaystackData(hit[n])]

\* a find whose filter selects the documents of the other owners
NewestFirst_Others(store, owner) ==
    LET hit == SelectSeq(store, LAMBDA t : t.user # owner)
    IN  [n \in 1..Len(hit) |-> WithoutPaystackData(hit[Len(hit) + 1 - n])]

\* .populate('user', 'name email role'): null when the user is not stored
Populate(tx) ==
    [tx EXCEPT !.user = IF @ \in DOMAIN users
                        THEN [id |-> @, name |-> users[@].name,
                              email |-> users[@].email, role |-> users[@].role]
                        ELSE Null]

\* Transaction.find().sort({createdAt: -1}).populate(...).select('-paystackData')
AllNewestFirst(store) ==
    [n \in 1..Len(store) |-> Populate(WithoutPaystackData(store[Len(store) + 1 - n]))]

\* .sort({createdAt: -1}) of the documents that match
RECURSIVE NewestFirst(_, _)
NewestFirst(store, owner) ==
    IF store = <<>> THEN <<>>
    ELSE LET last == store[Len(store)]
             rest == NewestFirst(SubSeq(store, 1, Len(store) - 1), owner)
         IN  IF last.user = owner THEN <<WithoutPaystackData(last)>> \o rest ELSE rest

Call(r, op, reference) == [req |-> r, op |-> op, reference |-> reference]

\* a response after which the handler goes on waiting
Finish_StillWaiting(r, resp) == out' = resp /\ reqs' = reqs

\* res.status(code).json(...) ends the request
Finish(r, resp) ==
    /\ out' = resp
    /\ reqs' = [reqs EXCEPT ![r] = IdleReq]

\* ------------------------------------------------------------------ Init
Init ==
    /\ users = [u \in UserIds |->
                  [name |-> UserName[u],
                   email |-> UserEmail[u],
                   role |-> IF u = "a1" THEN "admin" ELSE "user",
                   password |-> Hash(UserSecret[u])]]
    /\ now = 0
    \* every user has logged in
    /\ held = {GenerateToken(u, users[u].role, now) : u \in UserIds}
    \* validateEnv lets a key of the wrong prefix and a blank key pass
    /\ secretKey \in {<<"sk_test_", "k">>, <<"pk_test_", "k">>, <<>>}
    /\ txs = <<>>
    /\ reqs = [r \in ReqIds |-> IdleReq]
    /\ wire = {}
    /\ out = NoResponse

\* --------------------------------------------------------------- actions
\* a req.user that carries the role of a token of the user
ReqUser_TokenRole(uid) ==
    [id |-> uid, email |-> users[uid].email,
     role |-> (CHOOSE t \in held : t.id = uid).role]

\* authMiddleware, for a request that carries the valid token of identity uid:
\* the document User.findById(decoded.id) returns becomes req.user
ReqUser(uid) == [id |-> uid, email |-> users[uid].email, role |-> users[uid].role]

\* POST /initiate: authMiddleware, roleMiddleware, then initiatePayment up to
\* `await Transaction.create(...)`, while fewer than cap transactions are stored
InitiateCreateUpTo(r, cap, amounts) ==
    /\ reqs[r].pc = "idle"
    /\ \E uid \in Bearers, amount \in amounts :
          LET user == ReqUser(uid)
              kobo == AmountInKobo(amount)
              fail(code, message, errors) ==
                  /\ Finish(r, Resp("initiate", user.id, amount, code, message, errors, Null))
                  /\ UNCHANGED txs
          IN  IF user.role \notin AllowedRoles("initiate")
                  THEN fail(403, MsgAccessDenied, {})
              ELSE IF AmountRejected(amount)
                  THEN fail(400, MsgInvalidAmount, {})
              ELSE IF ~AmountValid(kobo)
                  \* a ValidationError of the schema, handled by the outer catch
                  THEN fail(400, MsgValidation, {"amount"})
              ELSE \E t \in Timestamps, x \in Suffixes :
                      LET reference == Reference(t, x)
                          doc == NewTx(Len(txs) + 1, user.id, StoredAmount(kobo), reference)
                      IN  IF FindOne(txs, reference) # Null
                          \* the unique index on reference rejects the insert
                          THEN fail(500, MsgInitiateFailed, {})
                          ELSE /\ Len(txs) < cap
                               /\ txs' = Append(txs, doc)
                               /\ reqs' = [reqs EXCEPT ![r] =
                                              [pc |-> "created", user |-> user,
                                               arg |-> amount, doc |-> doc]]
                               /\ out' = NoResponse
    /\ UNCHANGED <<env, wire>>

InitiateCreate(r) == InitiateCreateUpTo(r, MaxTx, AmountInputs)

\* the same step where only initiate requests run
InitiateCreateMore(r) == InitiateCreateUpTo(r, MaxCreated, AmountInputs)

\* the same step with the amounts that overflow a double as well
InitiateCreateAny(r) == InitiateCreateUpTo(r, MaxCreated, AmountInputs \cup {Infinity})

\* initiatePayment calls initializeTransaction: either it throws before any
\* request is sent, and the catch saves the failure, or the request leaves
InitiateCall(r) ==
    /\ reqs[r].pc = "created"
    /\ LET user == reqs[r].user
           doc == reqs[r].doc
           err == InitializePrecheck(secretKey, doc.amount, user.email, doc.reference)
           failed == [doc EXCEPT !.status = "failed", !.paystackData = ErrorPayload(err)]
       IN  IF err # NoMessage
           THEN /\ txs' = Save(txs, doc, failed)
                /\ Finish(r, Resp("initiate", user.id, reqs[r].arg, 500, err, {}, Null))
                /\ UNCHANGED wire
           ELSE /\ wire' = wire \cup {Call(r, "initialize", doc.reference)}
                /\ reqs' = [reqs EXCEPT ![r].pc = "awaitInit"]
                /\ out' = NoResponse
                /\ UNCHANGED txs
    /\ UNCHANGED env

\* The gateway's answer to initialize arrives; the transaction is saved and the
\* response sent
InitiateReturn(r) ==
    /\ reqs[r].pc = "awaitInit"
    /\ \E answer \in InitAnswers(reqs[r].doc.reference) :
          LET user == reqs[r].user
              doc == reqs[r].doc
              done(new, code, message, data) ==
                  /\ txs' = Save(txs, doc, new)
                  /\ Finish(r, Resp("initiate", user.id, reqs[r].arg, code, message, {}, data))
          IN  IF answer.k = "body"
              THEN IF answer.status = TRUE /\ answer.data # Null
                   THEN done([doc EXCEPT !.paystackData = answer.data], 200, MsgInitOk,
                             [authorization_url |-> answer.data.authorization_url,
                              reference |-> doc.reference,
                              amount |-> doc.amount,
                              access_code |-> answer.data.access_code])
                   ELSE done([doc EXCEPT !.status = "failed"], 400,
                             IF answer.message # NoMessage
                             THEN answer.message ELSE MsgInitRejected,
                             Null)
              ELSE done([doc EXCEPT !.status = "failed",
                                    !.paystackData = ErrorPayload(InitializeThrows(answer))],
                        500, InitializeThrows(answer), Null)
    /\ wire' = wire \ {Call(r, "initialize", reqs[r].doc.reference)}
    /\ UNCHANGED env

\* GET /verify/:reference: authMiddleware, roleMiddleware, then verifyPayment
\* up to the call of verifyTransaction.  Between `await Transaction.findOne`
\* and that call the handler reads the loaded document only.
VerifyCall(r) ==
    /\ reqs[r].pc = "idle"
    /\ \E uid \in Bearers, reference \in AllRefs :
          LET user == ReqUser(uid)
              doc == FindOne(txs, reference)
              err == VerifyPrecheck(secretKey, reference)
              failed == [doc EXCEPT !.status = "failed",
                                    !.paystackData = ErrorPayload(err)]
              answer(code, message, data) ==
                  /\ Finish(r, Resp("verify", user.id, RefParam(reference),
                                    code, message, {}, data))
                  /\ UNCHANGED wire
          IN  IF user.role \notin AllowedRoles("verify")
                  THEN answer(403, MsgAccessDenied, Null) /\ UNCHANGED txs
              ELSE IF reference = <<>>
                  THEN answer(400, MsgReferenceRequired, Null) /\ UNCHANGED txs
              ELSE IF doc = Null
                  THEN answer(404, MsgNotFound, Null) /\ UNCHANGED txs
              ELSE IF NotPermitted(doc, user)
                  THEN answer(403, MsgForbidden, Null) /\ UNCHANGED txs
              ELSE IF AlreadyVerified(doc)
                  THEN /\ answer(200, MsgAlreadyVerified,
                                 [transaction |-> doc, status |-> doc.status])
                       /\ UNCHANGED txs
              ELSE IF err # NoMessage
                  THEN /\ txs' = Save(txs, doc, failed)
                       /\ answer(500, err, Null)
              ELSE /\ wire' = wire \cup {Call(r, "verify", reference)}
                   /\ reqs' = [reqs EXCEPT ![r] =
                                  [pc |-> "awaitVerify", user |-> user,
                                   arg |-> RefParam(reference), doc |-> doc]]
                   /\ out' = NoResponse
                   /\ UNCHANGED txs
    /\ UNCHANGED env

\* The gateway's answer to verify arrives; the transaction is saved and the
\* response sent
VerifyReturn(r) ==
    /\ reqs[r].pc = "awaitVerify"
    /\ \E answer \in VerifyAnswers(reqs[r].doc.reference) :
          LET user == reqs[r].user
              doc == reqs[r].doc
              done(new, code, message, data) ==
                  /\ txs' = Save(txs, doc, new)
                  /\ Finish(r, Resp("verify", user.id, reqs[r].arg,
                                    code, message, {}, data))
          IN  IF answer.k = "body"
              THEN IF answer.status = TRUE /\ answer.data # Null
                   THEN LET new == [doc EXCEPT !.status = MapStatus(answer.data.status),
                                               !.paystackData = answer.data]
                        IN  done(new, 200, MsgVerifyOk,
                                 [transaction |-> new, status |-> new.status,
                                  paystackStatus |-> answer.data.status])
                   ELSE done([doc EXCEPT !.status = "failed",
                                         !.paystackData = ErrorPayload(answer.message)],
                             400,
                             IF answer.message # NoMessage
                             THEN answer.message ELSE MsgVerifyRejected,
                             Null)
              ELSE done([doc EXCEPT !.status = "failed",
                                    !.paystackData = ErrorPayload(VerifyThrows(answer))],
                        500, VerifyThrows(answer), Null)
    /\ wire' = wire \ {Call(r, "verify", reqs[r].doc.reference)}
    /\ UNCHANGED env

\* GET /my-transactions: authMiddleware, roleMiddleware, then getMyTransactions
MyTransactions(r) ==
    /\ reqs[r].pc = "idle"
    /\ \E uid \in Bearers :
          LET user == ReqUser(uid)
              found == NewestFirst(txs, user.id)
          IN  IF user.role \notin AllowedRoles("mine")
              THEN Finish(r, Resp("mine", user.id, Null, 403, MsgAccessDenied, {}, Null))
              ELSE Finish(r, Resp("mine", user.id, Null, 200, NoMessage, {},
                                  [count |-> Len(found), transactions |-> found]))
    /\ UNCHANGED <<env, txs, wire>>

\* GET /all: authMiddleware, roleMiddleware('admin'), then getAllTransactions
AllTransactions(r) ==
    /\ reqs[r].pc = "idle"
    /\ \E uid \in Bearers :
          LET user == ReqUser(uid)
              found == AllNewestFirst(txs)
          IN  IF user.role \notin AllowedRoles("all")
              THEN Finish(r, Resp("all", user.id, Null, 403, MsgAccessDenied, {}, Null))
              ELSE Finish(r, Resp("all", user.id, Null, 200, NoMessage, {},
                                  [count |-> Len(found), transactions |-> found]))
    /\ UNCHANGED <<env, txs, wire>>

\* ------------------------------------------------------------ /api/auth
\* req.body.email and req.body.password of register and login
EmailInputs == {"u1@example.com", "U1@Example.com", "new@example.com",
                "NEW@example.com", "not-an-email", ""}
NoSecret == Secret(0, "", "")
SecretInputs ==
    {UserSecret["u1"], Secret(6, "newpas", ""), Secret(5, "short", ""),
     Secret(BcryptBytes + 1, "long72", "a"), Secret(BcryptBytes + 1, "long72", "b"),
     NoSecret}
\* a name of n characters
RECURSIVE NameOfLength(_)
NameOfLength(n) == IF n = 0 THEN "" ELSE "x" \o NameOfLength(n - 1)

\* req.body.name of register
NameInputs == {"", "A ", "Al"}
\* the same and a name of more characters than the schema allows
LongNameInputs == NameInputs \cup {NameOfLength(MaxName + 1)}

\* name.trim()
TrimName(name) == IF name = "A " THEN "A" ELSE name

\* req.body.email of register: also with whitespace around it
RegisterEmails == EmailInputs \cup {" U1@Example.com "}

\* email.toLowerCase()
LowerCase(email) ==
    CASE email = "U1@Example.com"  -> "u1@example.com"
      [] email = " U1@Example.com " -> " u1@example.com "
      [] email = "NEW@example.com" -> "new@example.com"
      [] OTHER                     -> email

\* email.trim()
Trim(email) ==
    CASE email = " U1@Example.com " -> "U1@Example.com"
      [] email = " u1@example.com " -> "u1@example.com"
      [] OTHER                      -> email

\* setters that leave the value as it is given
CastEmail_AsGiven(email) == email

\* lowercase: true, trim: true: the setters of the email path, which Mongoose
\* runs on the value of a document and on the value of a query filter
CastEmail(email) == Trim(LowerCase(email))

\* a lookup that finds nobody
FindByEmail_None(email) == "none"

\* User.findOne({ email }): the id of the stored user, or "none"
FindByEmail(email) ==
    IF \E u \in DOMAIN users : users[u].email = CastEmail(email)
    THEN CHOOSE u \in DOMAIN users : users[u].email = CastEmail(email)
    ELSE "none"

MsgLoginFields == "Please provide email and password."
MsgInvalidCredentials == "Invalid email or password."
MsgLoginOk == "Login successful"

Credentials(email, password) ==
    [t |-> "credentials", email |-> email, password |-> password]

\* the user object of the responses of register and login
PublicUser(u) ==
    [id |-> u, name |-> users[u].name, email |-> users[u].email, role |-> users[u].role]

\* what a client does with a token it receives: keeps it, in place of one it
\* held when it holds MaxTokens
Keep(token) ==
    IF token \in held \/ Cardinality(held) < MaxTokens
    THEN held' = held \cup {token}
    ELSE \E old \in held : held' = (held \ {old}) \cup {token}

\* an answer that tells an unknown email from a wrong secret
LoginFailure_Telling(found) ==
    [code |-> 401,
     message |-> IF found THEN MsgInvalidCredentials ELSE MsgUserNotFound]

\* the answer of login when the lookup or the comparison fails
LoginFailure(found) == [code |-> 401, message |-> MsgInvalidCredentials]

\* POST /login with the given body
LoginWith(r, email, password) ==
    /\ reqs[r].pc = "idle"
    /\ LET u == FindByEmail(LowerCase(email))
           answer(code, message, data) ==
               Finish(r, Resp("login", "none", Credentials(email, password),
                              code, message, {}, data))
       IN  IF email = "" \/ password = NoSecret
               THEN answer(400, MsgLoginFields, Null) /\ UNCHANGED held
           ELSE IF u = "none"
               THEN answer(LoginFailure(FALSE).code, LoginFailure(FALSE).message, Null)
                    /\ UNCHANGED held
           ELSE IF ~ComparePassword(password, users[u].password)
               THEN answer(LoginFailure(TRUE).code, LoginFailure(TRUE).message, Null)
                    /\ UNCHANGED held
           ELSE LET token == GenerateToken(u, users[u].role, now)
                IN  /\ answer(200, MsgLoginOk, [token |-> token, user |-> PublicUser(u)])
                    /\ Keep(token)
    /\ UNCHANGED <<users, now, secretKey, txs, wire>>

\* POST /login
Login(r) == \E email \in EmailInputs, password \in SecretInputs : LoginWith(r, email, password)

\* a stored user logs in with the secret of the account
SignIn(r) ==
    \E u \in DOMAIN users \cap DOMAIN UserSecret : LoginWith(r, users[u].email, UserSecret[u])

\* match: [/^\S+@\S+\.\S+$/, 'Please provide a valid email address']
MatchesEmail(email) ==
    email \notin {"not-an-email", "", " U1@Example.com ", " u1@example.com "}

MsgRegisterFields == "Please provide name, email, and password."
MsgEmailRegistered ==
    "Email already registered. Please use a different email or login."
MsgRegistered == "User registered successfully"
MsgRegistrationFailed == "Registration failed. Please try again."
MsgNameLength == "Name must be at least 2 characters"
MsgNameTooLong == "Name cannot exceed 100 characters"
MsgEmailFormat == "Please provide a valid email address"
MsgPasswordLength == "Password must be at least 6 characters"

\* req.body.role of register: absent, or a role the client asks for
NoRole == {"none"}
RoleInputs == NoRole \cup Roles

Registration(name, email, password, role) ==
    [t |-> "registration", name |-> name, email |-> email, password |-> password,
     role |-> role]

\* a register that takes the role the body asks for
RegisterRole_FromBody(body) == IF body.role \in Roles THEN body.role ELSE "user"

\* role: 'user' in User.create
RegisterRole(body) == "user"

\* a schema without validators
ValidationErrors_None(doc) == {}

\* the validators of userSchema: the messages of the ValidationError
ValidationErrors(doc) ==
    {MsgNameLength : x \in {1} \cap {IF Len(doc.name) < MinName THEN 1 ELSE 0}}
        \cup {MsgNameTooLong : x \in {1} \cap {IF Len(doc.name) > MaxName THEN 1 ELSE 0}}
        \cup {MsgEmailFormat : x \in {1} \cap {IF MatchesEmail(doc.email) THEN 0 ELSE 1}}
        \cup {MsgPasswordLength :
                  x \in {1} \cap {IF doc.password.len < MinPassword THEN 1 ELSE 0}}

\* a users collection without the index on email
DuplicateKey_NoIndex(email) == FALSE

\* unique: true on email: the insert fails with a duplicate key error
DuplicateKey(email) == \E u \in DOMAIN users : users[u].email = email

\* User.create stores the document under the next _id
NextId == NewIds[Cardinality(DOMAIN users) - Cardinality(UserIds) + 1]

\* POST /register up to `await User.findOne(...)` and the check of its result
RegisterFindOf(r, names, roles) ==
    /\ reqs[r].pc = "idle"
    /\ \E name \in names, email \in RegisterEmails, password \in SecretInputs,
          role \in roles :
          LET body == Registration(name, email, password, role)
              answer(code, message) ==
                  Finish(r, Resp("register", "none", body, code, message, {}, Null))
          IN  IF name = "" \/ email = "" \/ password = NoSecret
                  THEN answer(400, MsgRegisterFields)
              ELSE IF FindByEmail(LowerCase(email)) # "none"
                  THEN answer(409, MsgEmailRegistered)
              ELSE /\ reqs' = [reqs EXCEPT ![r] = [IdleReq EXCEPT !.pc = "registering",
                                                                  !.arg = body]]
                   /\ out' = NoResponse
    /\ UNCHANGED <<env, txs, wire>>

RegisterFind(r) == RegisterFindOf(r, NameInputs, NoRole)
RegisterFindLong(r) == RegisterFindOf(r, LongNameInputs, NoRole)
RegisterFindRole(r) == RegisterFindOf(r, {UserName["u1"]}, RoleInputs)

\* POST /register from `await User.create(...)` on
RegisterCreate(r) ==
    /\ reqs[r].pc = "registering"
    /\ Cardinality(DOMAIN users) < MaxUsers
    /\ LET body == reqs[r].arg
           doc == [name |-> TrimName(body.name),
                   email |-> CastEmail(Trim(LowerCase(body.email))),
                   role |-> RegisterRole(body), password |-> body.password]
           answer(code, message, errors, data) ==
               Finish(r, Resp("register", "none", body, code, message, errors, data))
       IN  IF ValidationErrors(doc) # {}
               THEN /\ answer(400, MsgValidation, ValidationErrors(doc), Null)
                    /\ UNCHANGED <<users, held>>
           ELSE IF DuplicateKey(doc.email)
               THEN /\ answer(500, MsgRegistrationFailed, {}, Null)
                    /\ UNCHANGED <<users, held>>
           ELSE LET id == NextId
                    token == GenerateToken(id, doc.role, now)
                IN  /\ users' = users @@ (id :> [doc EXCEPT !.password = Hash(@)])
                    /\ answer(201, MsgRegistered, {},
                              [token |-> token,
                               user |-> [id |-> id, name |-> doc.name,
                                         email |-> doc.email, role |-> doc.role]])
                    /\ Keep(token)
    /\ UNCHANGED <<now, secretKey, txs, wire>>

\* An operator changes the role of a stored user in the database
\* (db.users.updateOne({email}, {$set: {role}}))
SetRole ==
    /\ \E u \in DOMAIN users, role \in Roles :
          /\ users[u].role # role
          /\ users' = [users EXCEPT ![u].role = role]
    /\ out' = NoResponse
    /\ UNCHANGED <<now, held, secretKey, txs, reqs, wire>>

\* authMiddleware responds itself: next() is not called, so that neither
\* roleMiddleware nor a handler runs
Unauthenticated(r) ==
    /\ reqs[r].pc = "idle"
    /\ \E header \in Headers :
          LET auth == AuthMiddleware(header)
          IN  /\ auth.code # 0
              /\ Finish(r, Resp("auth", "none", header, auth.code, auth.message, {}, Null))
    /\ UNCHANGED <<env, txs, wire>>

\* time passes: a day
Tick ==
    /\ now < MaxClock
    /\ now' = now + 1
    /\ out' = NoResponse
    /\ UNCHANGED <<users, held, secretKey, txs, reqs, wire>>

\* the document of a user is removed from the users collection, so that
\* User.findById returns null for its id
RemoveUser ==
    /\ \E u \in DOMAIN users : users' = [v \in DOMAIN users \ {u} |-> users[v]]
    /\ out' = NoResponse
    /\ UNCHANGED <<now, held, secretKey, txs, reqs, wire>>

Next ==
    \E r \in ReqIds :
        \/ InitiateCreate(r)
        \/ InitiateCall(r)
        \/ InitiateReturn(r)
        \/ VerifyCall(r)
        \/ VerifyReturn(r)
        \/ MyTransactions(r)

Spec == Init /\ [][Next]_vars

\* The runs in which each request is handled to its response before the next
\* one arrives: a client that waits for every answer
NextSequential ==
    \E r \in ReqIds :
        /\ \A q \in ReqIds \ {r} : reqs[q].pc = "idle"
        /\ \/ InitiateCreate(r)
           \/ InitiateCall(r)
           \/ InitiateReturn(r)
           \/ VerifyCall(r)
           \/ VerifyReturn(r)
           \/ MyTransactions(r)

SpecSequential == Init /\ [][NextSequential]_vars

\* The event loop runs every handler that can go on by itself: the call that
\* follows the create is made.  Nothing makes an answer of the gateway arrive:
\* axios.post and axios.get are given headers only, and without a timeout
\* option axios waits for as long as the gateway stays silent.
Fairness == \A r \in ReqIds : WF_vars(InitiateCall(r))

SpecLive == Init /\ [][NextSequential]_vars /\ Fairness

\* The runs of clients that wait for every answer while an operator changes
\* the roles of users and the users sign in again
NextRoles ==
    \/ SetRole
    \/ \E r \in ReqIds :
          /\ \A q \in ReqIds \ {r} : reqs[q].pc = "idle"
          /\ \/ SignIn(r)
             \/ AllTransactions(r)
             \/ MyTransactions(r)
             \/ InitiateCreate(r)
             \/ InitiateCall(r)
             \/ InitiateReturn(r)
             \/ VerifyCall(r)
             \/ VerifyReturn(r)

SpecRoles == Init /\ [][NextRoles]_vars

\* The runs of clients that present any header over the lifetime of their
\* tokens, sign in again, and whose documents may be removed
NextSession ==
    \/ Tick
    \/ RemoveUser
    \/ \E r \in ReqIds :
          /\ \A q \in ReqIds \ {r} : reqs[q].pc = "idle"
          /\ \/ SignIn(r)
             \/ Unauthenticated(r)
             \/ MyTransactions(r)

SpecSession == Init /\ [][NextSession]_vars

\* The requests of /api/auth, in any interleaving
NextAccounts ==
    \E r \in ReqIds :
        \/ RegisterFind(r)
        \/ RegisterCreate(r)
        \/ Login(r)

\* /api/auth reads no Paystack key: one configuration stands for all
InitAccounts == Init /\ secretKey = <<"sk_test_", "k">>

SpecAccounts == InitAccounts /\ [][NextAccounts]_vars

\* The register requests, in any interleaving, with names of every length
NextRegister ==
    \E r \in ReqIds :
        \/ RegisterFindLong(r)
        \/ RegisterCreate(r)

SpecRegister == InitAccounts /\ [][NextRegister]_vars

\* The /api/payments requests, with and without a token that passes
\* authMiddleware, in any interleaving
NextGates ==
    \E r \in ReqIds :
        \/ Unauthenticated(r)
        \/ InitiateCreate(r)
        \/ InitiateCall(r)
        \/ InitiateReturn(r)
        \/ VerifyCall(r)
        \/ VerifyReturn(r)
        \/ MyTransactions(r)
        \/ AllTransactions(r)

SpecGates == Init /\ [][NextGates]_vars

\* The initiate requests, in any interleaving
NextInitiate ==
    \E r \in ReqIds :
        \/ InitiateCreateMore(r)
        \/ InitiateCall(r)
        \/ InitiateReturn(r)

SpecInitiate == Init /\ [][NextInitiate]_vars

\* The initiate requests with every amount a JSON body can carry
NextAmounts ==
    \E r \in ReqIds :
        \/ InitiateCreateAny(r)
        \/ InitiateCall(r)
        \/ InitiateReturn(r)

SpecAmounts == Init /\ [][NextAmounts]_vars

\* The initiate requests and the listings of the owners, in any interleaving
NextListing ==
    \E r \in ReqIds :
        \/ InitiateCreateMore(r)
        \/ InitiateCall(r)
        \/ InitiateReturn(r)
        \/ MyTransactions(r)

SpecListing == Init /\ [][NextListing]_vars

\* ------------------------------------------------- the global error handler
\* The errors express.json() hands to next(err) for a body that does not
\* parse: a SyntaxError of status 400 with the message of JSON.parse
ParseMessages == {"Unexpected end of JSON input", "Unexpected token } in JSON at position 9"}
ParseErrors ==
    {[name |-> "SyntaxError", code |-> 0, statusCode |-> 400, message |-> m,
      errors |-> {}, keyPattern |-> ""] : m \in ParseMessages}

MsgInternal == "Internal server error"
MsgTokenInvalidOrExpired == "Invalid or expired token"
MsgAlreadyExists(field) == <<field, "already exists. Please use a different", field>>

\* globalErrorHandler: the status and the body it responds with.  The branch
\* of the other errors keeps statusCode at 500 and takes the message of err.
GlobalErrorHandler(err) ==
    IF err.name = "ValidationError"
        THEN [code |-> 400, message |-> MsgValidation, errors |-> err.errors]
    ELSE IF err.code = 11000
        THEN [code |-> 409, message |-> MsgAlreadyExists(err.keyPattern), errors |-> {}]
    ELSE IF err.name \in {"JsonWebTokenError", "TokenExpiredError"}
        THEN [code |-> 401, message |-> MsgTokenInvalidOrExpired, errors |-> {}]
    ELSE [code |-> 500,
          message |-> IF err.message # NoMessage THEN err.message ELSE MsgInternal,
          errors |-> {}]

\* A request whose JSON body does not parse: express.json() calls next(err),
\* no route runs, and globalErrorHandler responds
MalformedBody(r) ==
    /\ reqs[r].pc = "idle"
    /\ \E err \in ParseErrors :
          LET answer == GlobalErrorHandler(err)
          IN  Finish(r, Resp("body", "none", Null, answer.code, answer.message,
                             answer.errors, Null))
    /\ UNCHANGED <<env, txs, wire>>

\* Every route of the API, one request at a time: which slot handles it makes
\* no difference, so the first one does
FirstReq == CHOOSE r \in ReqIds : \A q \in ReqIds : r <= q
NextApi ==
    \E r \in {FirstReq} :
        /\ \A q \in ReqIds \ {r} : reqs[q].pc = "idle"
        /\ \/ MalformedBody(r)
           \/ RegisterFind(r)
           \/ RegisterCreate(r)
           \/ Login(r)
           \/ Unauthenticated(r)
           \/ InitiateCreate(r)
           \/ InitiateCall(r)
           \/ InitiateReturn(r)
           \/ VerifyCall(r)
           \/ VerifyReturn(r)
           \/ MyTransactions(r)
           \/ AllTransactions(r)

SpecApi == Init /\ [][NextApi]_vars

\* The same with register bodies that carry a role
NextApiRole ==
    \E r \in {FirstReq} :
        /\ \A q \in ReqIds \ {r} : reqs[q].pc = "idle"
        /\ \/ RegisterFindRole(r)
           \/ RegisterCreate(r)
           \/ SignIn(r)
           \/ Unauthenticated(r)
           \/ InitiateCreate(r)
           \/ InitiateCall(r)
           \/ InitiateReturn(r)
           \/ VerifyCall(r)
           \/ VerifyReturn(r)
           \/ MyTransactions(r)
           \/ AllTransactions(r)

SpecApiRole == InitAccounts /\ [][NextApiRole]_vars

\* Initiate requests of one client and verify requests of another, in any
\* interleaving, over more than one stored transaction
NextLedger ==
    \/ \E r \in {FirstReq} :
          \/ InitiateCreateMore(r)
          \/ InitiateCall(r)
          \/ InitiateReturn(r)
    \/ \E r \in ReqIds \ {FirstReq} :
          \/ VerifyCall(r)
          \/ VerifyReturn(r)

SpecLedger == Init /\ [][NextLedger]_vars

\* ---------------------------------------------------------------- claims
\* C1 as stated: every change of a stored status starts from pending, so that
\* no request moves a status away from failed or away from success.
C1_StatusLeavesOnlyPending ==
    [][\A i \in 1..Len(txs) :
          txs'[i].status # txs[i].status => txs[i].status = "pending"]_vars

\* C1, amended: a stored status is changed only by the save of an initiate or
\* verify request that had loaded the transaction with a status other than
\* success, to a status other than the one it loaded.  failed is left when a
\* later verify reaches the gateway; success is left only by a request that
\* had loaded the transaction before it became success.
C1_StatusChangedBySaveOfUnverified ==
    [][\A i \in 1..Len(txs) :
          txs'[i].status # txs[i].status =>
              \/ /\ txs[i].status # "success"
                 /\ reqs' = reqs
                 /\ out'.op = "verify" /\ out'.code = 500
                 /\ txs'[i].status = "failed"
              \/ \E r \in ReqIds :
                    /\ reqs[r].pc # "idle" /\ reqs'[r].pc = "idle"
                    /\ reqs[r].doc.id = i
                    /\ reqs[r].doc.status # "success"
                    /\ txs'[i].status # reqs[r].doc.status]_vars

\* C1, witness: a verify request that loaded the transaction as failed is at
\* the gateway while the stored status has become success
C1_FailedLeft ==
    \E r \in ReqIds :
        /\ reqs[r].pc = "awaitVerify"
        /\ reqs[r].doc.status = "failed"
        /\ txs[reqs[r].doc.id].status = "success"

\* C2: when verify is called by the owner or an admin on a transaction whose
\* stored status is success when it is read, no gateway verify call is made,
\* the transaction is not written, and the response is 200 with the stored
\* record, whose status is success.
C2_VerifiedShortCircuit ==
    [][/\ (/\ out'.op = "verify" /\ reqs' = reqs
           /\ FindOne(txs, out'.arg.ref) # Null
           /\ FindOne(txs, out'.arg.ref).status = "success"
           /\ (\/ FindOne(txs, out'.arg.ref).user = out'.by
               \/ users[out'.by].role = "admin"))
          => /\ out'.code = 200
             /\ out'.data.transaction = FindOne(txs, out'.arg.ref)
             /\ out'.data.status = "success"
             /\ txs' = txs
             /\ wire' = wire
       /\ \A r \in ReqIds :
             reqs[r].pc = "idle" /\ reqs'[r].pc = "awaitVerify"
                 => FindOne(txs, reqs'[r].arg.ref).status # "success"]_vars

\* C2, witness: verify has answered from a stored success without a call
C2_AnsweredFromStore ==
    /\ out.op = "verify" /\ out.code = 200
    /\ out.message = MsgAlreadyVerified
    /\ FindOne(txs, out.arg.ref) # Null
    /\ out.data.transaction = FindOne(txs, out.arg.ref)
    /\ out.data.transaction.status = "success"
    /\ \A c \in wire : c.op # "verify"

\* C3: verify on a stored transaction is answered 403 exactly when the
\* requester is not its owner and not an admin; a request so rejected makes no
\* gateway call and leaves the stored transactions as they are, and no
\* request of such a requester reaches the gateway.
C3_ForbiddenIffNeitherOwnerNorAdmin ==
    [][/\ (/\ out'.op = "verify" /\ reqs' = reqs
           /\ FindOne(txs, out'.arg.ref) # Null)
          => LET tx == FindOne(txs, out'.arg.ref)
                 denied == tx.user # out'.by /\ users[out'.by].role # "admin"
             IN  /\ out'.code = 403 <=> denied
                 /\ denied => txs' = txs /\ wire' = wire
       /\ \A r \in ReqIds :
             reqs[r].pc = "idle" /\ reqs'[r].pc = "awaitVerify"
                 => LET tx == FindOne(txs, reqs'[r].arg.ref)
                    IN  /\ tx # Null
                        /\ (\/ tx.user = reqs'[r].user.id
                            \/ users[reqs'[r].user.id].role = "admin")]_vars

\* C3, witness: a user has been refused the verification of a transaction of
\* someone else
C3_Refused ==
    /\ out.op = "verify" /\ out.code = 403
    /\ FindOne(txs, out.arg.ref) # Null
    /\ FindOne(txs, out.arg.ref).user # out.by
    /\ users[out.by].role = "user"

\* C4: when verify has reached the gateway and the round trip succeeded, the
\* stored status is success if the gateway reported data.status = success,
\* failed if it reported failed and pending for every other value, and the
\* stored payload is the one the gateway returned.
C4_PersistedAsReported ==
    (out.op = "verify" /\ out.code = 200 /\ out.message = MsgVerifyOk)
        => LET tx == FindOne(txs, out.arg.ref)
               reported == out.data.paystackStatus
           IN  /\ tx.status = (IF reported = "success" THEN "success"
                               ELSE IF reported = "failed" THEN "failed"
                               ELSE "pending")
               /\ tx.paystackData = VerifyData(out.arg.ref, reported)

C6_PendingAtInitializeCall ==
    [][\A r \in ReqIds :
          (reqs[r].pc = "created" /\ reqs'[r].pc = "awaitInit")
              => /\ FindOne(txs, reqs[r].doc.reference) # Null
                 /\ FindOne(txs, reqs[r].doc.reference).status = "pending"]_vars

\* C6, amended: at the moment of every gateway initialize call carrying
\* reference r, a stored transaction with reference r exists, which the
\* calling request has created for its requester with status pending and no
\* payload; it is stored as created unless a verify request has written its
\* payload, and with it possibly its status, since.
C6_CreatedBeforeInitializeCall ==
    [][\A r \in ReqIds :
          (reqs[r].pc = "created" /\ reqs'[r].pc = "awaitInit")
              => LET doc == reqs[r].doc
                     tx == FindOne(txs, doc.reference)
                 IN  /\ tx # Null
                     /\ tx.id = doc.id
                     /\ tx.user = reqs[r].user.id
                     /\ doc.status = "pending" /\ doc.paystackData = Null
                     /\ Call(r, "initialize", doc.reference) \in wire' \ wire
                     /\ tx = doc \/ tx.paystackData.k \in {"verify", "error"}]_vars

\* C6, witness: an initialize call is at the gateway and the transaction it
\* carries is stored as created, pending
C6_CallOnPending ==
    \E r \in ReqIds :
        /\ reqs[r].pc = "awaitInit"
        /\ Call(r, "initialize", reqs[r].doc.reference) \in wire
        /\ FindOne(txs, reqs[r].doc.reference) = reqs[r].doc
        /\ reqs[r].doc.status = "pending"

\* C7: when the gateway initialize call succeeds, initiate stores the returned
\* payload on the transaction and leaves its status as it is, pending where no
\* other request has written it, and responds 200 with the authorization URL of the payload, the reference
\* generated for the transaction and the stored amount.
C7_InitializedStaysPending ==
    [][\A r \in ReqIds :
          (reqs[r].pc = "awaitInit" /\ reqs'[r].pc = "idle" /\ out'.code = 200)
              => LET doc == reqs[r].doc
                     old == txs[doc.id]
                     new == txs'[doc.id]
                 IN  /\ new.paystackData = InitData(doc.reference)
                     /\ new.status = old.status
                     /\ old = doc => new.status = "pending"
                     /\ out'.data.authorization_url = new.paystackData.authorization_url
                     /\ out'.data.reference = new.reference
                     /\ out'.data.reference = doc.reference
                     /\ out'.data.amount = new.amount]_vars

\* C7, witness: initiate has answered 200 and the transaction is stored
\* pending with the payload of initialize
C7_Initialized ==
    /\ out.op = "initiate" /\ out.code = 200
    /\ FindOne(txs, out.data.reference) # Null
    /\ FindOne(txs, out.data.reference).status = "pending"
    /\ FindOne(txs, out.data.reference).paystackData = InitData(out.data.reference)

\* C8: whenever the gateway initialize call made by initiate fails (it throws
\* before a request is sent, no response comes, the response is not a success,
\* or the body's status is not successful), the transaction is stored with
\* status failed and an error payload and the response is 500.
C8_InitializeFailureIs500 ==
    [][\A r \in ReqIds :
          (reqs[r].pc \in {"created", "awaitInit"} /\ reqs'[r].pc = "idle"
           /\ out'.code # 200)
              => /\ out'.code = 500
                 /\ txs'[reqs[r].doc.id].status = "failed"
                 /\ txs'[reqs[r].doc.id].paystackData.k = "error"]_vars

C10_ListedPendingAfterInitiate ==
    [][(out.op = "initiate" /\ out.code = 200 /\ out'.op = "mine" /\ out'.by = out.by)
          => /\ out'.code = 200
             /\ LET list == out'.data.transactions
                    hits == {n \in 1..Len(list) : list[n].reference = out.data.reference}
                IN  /\ Cardinality(hits) = 1
                    /\ \A n \in hits : list[n].status = "pending" /\ list[n].user = out.by
                    /\ out'.data.count = Len(list)]_vars

\* C10, witness: the list of an owner shows the transaction, initialized at the
\* gateway and pending
C10_ListedPending ==
    /\ out.op = "mine" /\ out.code = 200
    /\ out.data.count = 1
    /\ out.data.transactions[1].status = "pending"
    /\ out.data.transactions[1].user = out.by
    /\ FindOne(txs, out.data.transactions[1].reference).paystackData.k = "initialize"

\* C11: on GET /all with a valid token, a requester whose stored role is user
\* is answered 403 and gets no listing, and a requester whose stored role is
\* admin is answered 200 with the listing of all stored transactions, newest
\* first.
C11_AllIsAdminOnly ==
    out.op = "all"
        => /\ users[out.by].role = "user" => out.code = 403 /\ out.data = Null
           /\ users[out.by].role = "admin"
                 => /\ out.code = 200
                    /\ out.data.count = Len(txs)
                    /\ Len(out.data.transactions) = Len(txs)
                    /\ \A n \in 1..Len(txs) :
                          out.data.transactions[n].reference
                              = txs[Len(txs) + 1 - n].reference

\* C11, witness: a user has been refused the listing while a transaction is
\* stored
C11_UserRefused ==
    /\ out.op = "all" /\ out.code = 403
    /\ users[out.by].role = "user"
    /\ Len(txs) > 0

\* C12: the auth gate answers 401 exactly to a header that is absent, not a
\* Bearer header, or carries a token that is malformed, wrongly signed,
\* expired, or whose subject id resolves to no stored user; it has no other
\* failure answer, and a handler answers only a requester holding a token that
\* is none of these.
C12_GateAnswers401 ==
    LET refused(h) ==
            \/ h.h # "bearer"
            \/ h.token.k # "jwt"
            \/ h.token.sig # "JWT_SECRET"
            \/ now >= h.token.iat + TokenLifetime
            \/ h.token.id \notin DOMAIN users
    IN  /\ \A h \in Headers : AuthMiddleware(h).code = IF refused(h) THEN 401 ELSE 0
        /\ out.op = "auth" => out.code = 401 /\ out.data = Null /\ refused(out.arg)
        /\ out.op \notin {"none", "auth", "login"}
              => \E t \in held : t.id = out.by /\ ~refused(Bearer(t))

\* C12, witness: a well signed token that has not expired is refused with 401
\* because its user is no longer stored
C12_RemovedUserRefused ==
    /\ out.op = "auth" /\ out.code = 401
    /\ out.arg.h = "bearer"
    /\ out.arg.token.k = "jwt"
    /\ out.arg.token.sig = "JWT_SECRET"
    /\ now < out.arg.token.iat + TokenLifetime
    /\ out.arg.token.id \notin DOMAIN users

\* C13: the role gate and verify's owner-or-admin check decide on the role
\* stored for the requester at the time of the request: GET /all is refused
\* with 403 exactly when the stored role is not admin, and a verify is refused
\* with 403 only when the stored role is not admin and the transaction is
\* another user's.
C13_StoredRoleDecides ==
    /\ out.op = "all" => (out.code = 403 <=> users[out.by].role # "admin")
    /\ out.op = "verify" /\ out.code = 403
          => /\ users[out.by].role # "admin"
             /\ \E n \in 1..Len(txs) :
                   txs[n].reference = out.arg.ref /\ txs[n].user # out.by

\* C13, witness: an admin who was made a user is refused the listing although
\* every token the admin holds says admin
C13_DemotedAdminRefused ==
    /\ out.op = "all" /\ out.code = 403
    /\ \E t \in held : t.id = out.by
    /\ \A t \in held : t.id = out.by => t.role = "admin"

\* C14 as stated: the role in the token decides, so that the listing is given
\* only to a holder of a token that says admin and refused only to a holder of
\* a token that says user.
C14_TokenRoleTrusted ==
    out.op = "all"
        => /\ out.code = 200 => \E t \in held : t.id = out.by /\ t.role = "admin"
           /\ out.code = 403 => \E t \in held : t.id = out.by /\ t.role = "user"

\* C14, amended: the role in the token is not used: the gate answers a token
\* the same whatever role it carries, the user it attaches to the request
\* carries the stored role, and the listing is given on the stored role.
C14_TokenRoleUnused ==
    /\ \A t \in held, role \in Roles :
          /\ AuthMiddleware(Bearer([t EXCEPT !.role = role])) = AuthMiddleware(Bearer(t))
          /\ AuthMiddleware(Bearer(t)).code = 0 => ReqUser(t.id).role = users[t.id].role
    /\ out.op = "all" /\ out.code = 200 => users[out.by].role = "admin"

\* C14, witness: a user who was made admin is given the listing although every
\* token the user holds says user
C14_PromotedUserListed ==
    /\ out.op = "all" /\ out.code = 200
    /\ \E t \in held : t.id = out.by
    /\ \A t \in held : t.id = out.by => t.role = "user"

\* C15: a token issued to a user that is still stored passes the auth gate at
\* every time before its issuance plus seven days and is answered 401 'Token
\* has expired' from then on; a handler answers only a holder of a token
\* inside its seven days.
C15_SevenDays ==
    /\ \A t \in held :
          t.id \in DOMAIN users
              => LET auth == AuthMiddleware(Bearer(t))
                 IN  IF now < t.iat + TokenLifetime
                     THEN auth.code = 0 /\ auth.id = t.id
                     ELSE auth.code = 401 /\ auth.message = MsgTokenExpired
    /\ out.op = "auth" /\ out.message = MsgTokenExpired
          => out.code = 401 /\ now >= out.arg.token.iat + TokenLifetime
    /\ out.op = "mine"
          => \E t \in held : t.id = out.by /\ now < t.iat + TokenLifetime

\* C15, witness: a token of a stored user is refused as expired exactly seven
\* days after a login issued it
C15_ExpiredAtSevenDays ==
    /\ out.op = "auth" /\ out.code = 401 /\ out.message = MsgTokenExpired
    /\ out.arg.token \in held
    /\ out.arg.token.id \in DOMAIN users
    /\ out.arg.token.iat > 0
    /\ now = out.arg.token.iat + TokenLifetime

\* C16: a register request that carries a name and a secret and whose email
\* is, up to letter case, the email of a stored user at the time of the lookup
\* is answered 409 and never goes on to create a user; a 409 leaves the stored
\* users as they were.
C16_DuplicateEmailIs409 ==
    [][/\ ( /\ out'.op = "register" /\ reqs' = reqs
            /\ out'.arg.name # "" /\ out'.arg.password # NoSecret
            /\ \E u \in DOMAIN users : users[u].email = LowerCase(out'.arg.email) )
          => out'.code = 409 /\ out'.message = MsgEmailRegistered /\ users' = users
       /\ \A r \in ReqIds :
             reqs[r].pc = "idle" /\ reqs'[r].pc = "registering"
                 => ~\E u \in DOMAIN users :
                        users[u].email = LowerCase(reqs'[r].arg.email)
       /\ out'.code = 409 => users' = users
      ]_vars

\* C16, witness: a registration is refused with 409 for an email that differs
\* from a stored one in letter case only
C16_OtherCaseRefused ==
    /\ out.op = "register" /\ out.code = 409
    /\ \A u \in DOMAIN users : users[u].email # out.arg.email
    /\ \E u \in DOMAIN users : users[u].email = LowerCase(out.arg.email)

\* C17 as stated: a registration with a name of two characters or more, a well
\* formed email and a secret of six characters or more is not refused as
\* invalid; a 201 carries a token of the new user and a user object without the
\* secret; from then on the registered secret passes the comparison at login
\* and every other secret fails it; and a login with a stored email is
\* answered 200 with a token of that user for the secret of the account and
\* 401 for another one.
C17_RegisterThenLogin ==
    /\ out.op = "register"
          => /\ ( /\ Len(TrimName(out.arg.name)) \in MinName..MaxName
                  /\ MatchesEmail(out.arg.email)
                  /\ out.arg.password.len >= MinPassword )
                => out.code \in {201, 409, 500}
             /\ out.code = 201
                => LET id == out.data.user.id
                   IN  /\ DOMAIN out.data.user = {"id", "name", "email", "role"}
                       /\ out.data.token = GenerateToken(id, "user", now)
                       /\ users[id].email = Trim(LowerCase(out.arg.email))
                       /\ ComparePassword(out.arg.password, users[id].password)
                       /\ \A secret \in SecretInputs \ {out.arg.password} :
                             ~ComparePassword(secret, users[id].password)
    /\ out.op = "login" /\ out.arg.password # NoSecret
          /\ LowerCase(out.arg.email) = UserEmail["u1"]
          => IF out.arg.password = UserSecret["u1"]
             THEN out.code = 200 /\ out.data.token.id = "u1"
             ELSE out.code = 401

C20_EmailsUnique ==
    \A u \in DOMAIN users : \A v \in DOMAIN users \ {u} :
        LowerCase(users[u].email) # LowerCase(users[v].email)

\* C20, witness: of two registrations under way at the same time for emails
\* equal up to letter case, the second to reach the insert was refused by the
\* index
C20_RaceLost ==
    /\ out.op = "register" /\ out.code = 500
    /\ \A u \in DOMAIN users : users[u].email # out.arg.email
    /\ \E u \in DOMAIN users \ UserIds : users[u].email = LowerCase(out.arg.email)

\* C19: after every step, initiate requests running in any interleaving, no two
\* stored transactions have the same reference, and every transaction that was
\* stored before the step is still stored with the reference it had.
C19_ReferenceUniqueAndFixed ==
    [][/\ \A m \in 1..Len(txs') : \A n \in 1..Len(txs') :
             m # n => txs'[m].reference # txs'[n].reference
       /\ Len(txs') >= Len(txs)
       /\ \A n \in 1..Len(txs) : txs'[n].reference = txs[n].reference
      ]_vars

\* C19, witness: with two transactions stored and an initiate request still
\* between its create and its call, another initiate request generated a
\* stored reference and was refused by the index
C19_SameReferenceRefused ==
    /\ Len(txs) = 2
    /\ out.op = "initiate" /\ out.code = 500 /\ out.message = MsgInitiateFailed
    /\ \E r \in ReqIds : reqs[r].pc = "created"

\* C21 as stated: the message of a failure response of initiate or verify is
\* never a text that the gateway put in a body it sent, so that the response
\* is the same whatever the gateway's message.
C21_GatewayMessageHidden ==
    out.op \in {"initiate", "verify"} /\ out.code >= 400
        => out.message \notin GatewayMessages

\* C22: while the Paystack key is not set or starts with neither sk_test_ nor
\* sk_live_, no request is at the gateway and no handler waits for one, no
\* initiate or verify is answered 200, and the 500 of a call that failed
\* carries the message of the configuration error.
C22_BadKeySendsNothing ==
    (secretKey = <<>> \/ secretKey[1] \notin {"sk_test_", "sk_live_"})
        => /\ wire = {}
           /\ \A r \in ReqIds : reqs[r].pc \notin {"awaitInit", "awaitVerify"}
           /\ out.op \in {"initiate", "verify"}
                 => /\ out.code # 200
                    /\ out.code = 500 /\ out.message # MsgInitiateFailed
                          => out.message = IF secretKey = <<>> THEN MsgKeyNotSet
                                                               ELSE MsgKeyFormat

\* C22, witness: with a key of another prefix a verify of a stored transaction
\* was answered with the configuration error
C22_VerifyRefusedLocally ==
    /\ secretKey # <<>> /\ secretKey[1] \notin {"sk_test_", "sk_live_"}
    /\ out.op = "verify" /\ out.code = 500 /\ out.message = MsgKeyFormat
    /\ wire = {}

\* C23 as stated: every request that waits for an answer of the gateway is
\* eventually answered.
C23_CallEventuallyAnswered ==
    \A r \in ReqIds :
        reqs[r].pc \in {"awaitInit", "awaitVerify"} ~> reqs[r].pc = "idle"

\* C24: nothing keeps the write of a verify from landing on a document that
\* another request wrote since it was loaded: when a verify is answered 200
\* with a payload other than the one it loaded, that payload is the stored
\* one after the save, whatever was stored before it.
C24_LaterWriteStored ==
    [][\A r \in ReqIds :
          ( /\ reqs[r].pc = "awaitVerify" /\ reqs'[r].pc = "idle"
            /\ out'.code = 200
            /\ out'.data.transaction.paystackData # reqs[r].doc.paystackData )
          => txs'[reqs[r].doc.id].paystackData = out'.data.transaction.paystackData
      ]_vars

\* C24, witness: a verify that loaded the transaction as pending, before any
\* verification was stored, has its call at the gateway while the payload of
\* another verify is already stored
C24_DoubleVerification ==
    \E r \in ReqIds :
        /\ reqs[r].pc = "awaitVerify"
        /\ reqs[r].doc.status = "pending"
        /\ reqs[r].doc.paystackData.k = "initialize"
        /\ Call(r, "verify", reqs[r].doc.reference) \in wire
        /\ txs[reqs[r].doc.id].paystackData.k = "verify"

\* C25: a verify is answered 404 'Transaction not found.' exactly when no
\* stored transaction has its reference, and the step that answers 404 sends
\* nothing to the gateway and leaves the stored transactions as they were.
C25_UnknownReferenceIs404 ==
    [][out'.op = "verify"
          => /\ out'.code = 404
                   <=> \A n \in 1..Len(txs) : txs[n].reference # out'.arg.ref
             /\ out'.code = 404
                   => /\ out'.message = MsgNotFound /\ out'.data = Null
                      /\ txs' = txs /\ wire' = wire /\ reqs' = reqs
      ]_vars

\* C25, witness: a verify was answered 404 while a transaction with another
\* reference is stored
C25_NotFoundAmongStored ==
    /\ out.op = "verify" /\ out.code = 404
    /\ Len(txs) > 0
    /\ \A n \in 1..Len(txs) : txs[n].reference # out.arg.ref

C27_OwnListingNewestFirst ==
    out.op = "mine" /\ out.code = 200
        => LET listed == out.data.transactions
               own == {m \in 1..Len(txs) : txs[m].user = out.by}
           IN  /\ out.data.count = Len(listed)
               /\ Len(listed) = Cardinality(own)
               /\ \A n \in 1..Len(listed) :
                     /\ listed[n].user = out.by
                     /\ listed[n].id \in own
                     /\ listed[n] = WithoutPaystackData(txs[listed[n].id])
               /\ \A m \in own : \E n \in 1..Len(listed) : listed[n].id = m
               /\ \A i \in 1..Len(listed) : \A j \in 1..Len(listed) :
                     i < j => listed[i].id > listed[j].id

\* C27, witness: a user was given a listing of two transactions
C27_TwoListed ==
    out.op = "mine" /\ out.code = 200 /\ Len(out.data.transactions) = 2

\* C28: every response of status 400 or more carries a message that is not
\* empty and no data; it carries errors only when it is the 400 'Validation
\* error' of a schema validation, which always carries some; a response of
\* lower status carries none.
C28_ErrorShape ==
    /\ out.code >= 400 => out.message # NoMessage /\ out.data = Null
    /\ out.errors # {} <=> (out.code = 400 /\ out.message = MsgValidation)

\* C28, witness: a registration was refused with the errors of the schema
C28_ValidationErrors ==
    /\ out.op = "register" /\ out.code = 400
    /\ MsgPasswordLength \in out.errors

\* C29 as stated: a response to an error that is none of the classified ones,
\* such as the error of a body that does not parse, is a 500 with the fixed
\* text 'Internal server error'; the 500 of a handler's outer catch carries
\* the fixed text of that handler.
C29_UnclassifiedIsGeneric500 ==
    /\ out.op = "body" => out.code = 500 /\ out.message = MsgInternal
    /\ out.op = "register" /\ out.code = 500 => out.message = MsgRegistrationFailed

\* C30 as stated: a registration that is neither accepted nor refused as
\* invalid, be it refused at the lookup or at the insert that another
\* registration of the same email won, is answered 409, and a user with its
\* email is stored.
C30_RaceLoserGets409 ==
    out.op = "register" /\ out.code \notin {201, 400}
        => /\ out.code = 409
           /\ \E u \in DOMAIN users : users[u].email = Trim(LowerCase(out.arg.email))

\* C31: a request has at most one call at the gateway, which it issues in the
\* step that starts its wait; a request that waits either goes on waiting or
\* ends, in the step that takes its call off the wire, and never calls again;
\* and a stored transaction is modified only in the step that answers a
\* request.
C31_OneCallOneWrite ==
    [][/\ \A r \in ReqIds :
             /\ Cardinality({c \in wire' : c.req = r}) <= 1
             /\ \A c \in wire' \ wire :
                   c.req = r => /\ reqs[r].pc \in {"idle", "created"}
                                /\ reqs'[r].pc \in {"awaitInit", "awaitVerify"}
             /\ reqs[r].pc \in {"awaitInit", "awaitVerify"}
                   => \/ reqs'[r] = reqs[r] /\ {c \in wire' : c.req = r} = {c \in wire : c.req = r}
                      \/ reqs'[r].pc = "idle" /\ {c \in wire' : c.req = r} = {}
       /\ (\E n \in 1..Len(txs) : txs'[n] # txs[n])
             => out'.op \in {"initiate", "verify"}
      ]_vars

\* C31, witness: an initiate that called the gateway has been answered 200, its
\* payload is stored and nothing is left at the gateway
C31_CalledOnceAndSaved ==
    /\ out.op = "initiate" /\ out.code = 200
    /\ wire = {}
    /\ \E n \in 1..Len(txs) :
          txs[n].reference = out.data.reference /\ txs[n].paystackData.k = "initialize"

\* C32: a verify by the owner of a transaction stored as failed, with a key
\* of the right prefix, is not answered before the gateway is called; and when
\* a verify is answered 200 with status success, the stored status is success
\* after its save.
C32_RetryReachesGateway ==
    [][/\ ( /\ out'.op = "verify" /\ reqs' = reqs
            /\ secretKey # <<>> /\ secretKey[1] \in {"sk_test_", "sk_live_"} )
          => ~\E n \in 1..Len(txs) :
                 /\ txs[n].reference = out'.arg.ref
                 /\ txs[n].status = "failed"
                 /\ txs[n].user = out'.by
       /\ \A r \in ReqIds :
             ( /\ reqs[r].pc = "awaitVerify" /\ reqs'[r].pc = "idle"
               /\ out'.code = 200 /\ out'.data.status = "success" )
             => txs'[reqs[r].doc.id].status = "success"
      ]_vars

\* C32, witness: the owner's verify of a transaction that an earlier verify
\* left failed with the gateway's 404 has its call at the gateway
C32_RetryAtGateway ==
    \E r \in ReqIds :
        /\ reqs[r].pc = "awaitVerify"
        /\ reqs[r].doc.status = "failed"
        /\ reqs[r].doc.paystackData = ErrorPayload(MsgUpstream404)
        /\ reqs[r].user.id = reqs[r].doc.user
        /\ Call(r, "verify", reqs[r].doc.reference) \in wire

\* C33: a register request that carries a name and a secret and whose email,
\* once trimmed and put in lower case, is the email of a stored user at the
\* time of the lookup is answered 409 and by no other answer, stores no user
\* and never goes on to the insert.
C33_NormalizedDuplicateIs409 ==
    [][/\ ( /\ out'.op = "register" /\ reqs' = reqs
            /\ out'.arg.name # "" /\ out'.arg.password # NoSecret
            /\ \E u \in DOMAIN users :
                  users[u].email = Trim(LowerCase(out'.arg.email)) )
          => /\ out'.code = 409 /\ out'.message = MsgEmailRegistered
             /\ users' = users /\ held' = held
       /\ \A r \in ReqIds :
             reqs[r].pc = "idle" /\ reqs'[r].pc = "registering"
                 => ~\E u \in DOMAIN users :
                        users[u].email = Trim(LowerCase(reqs'[r].arg.email))
      ]_vars

\* C33, witness: a registration is refused with 409 for a stored email given
\* with whitespace around it
C33_PaddedEmailRefused ==
    /\ out.op = "register" /\ out.code = 409
    /\ Trim(out.arg.email) # out.arg.email
    /\ \E u \in DOMAIN users : users[u].email = Trim(LowerCase(out.arg.email))

C35_SuccessIsFinal ==
    [][\A n \in 1..Len(txs) :
           txs[n].status = "success" => txs'[n].status = "success"]_vars

\* C36: a step in which authMiddleware answers 401 or roleMiddleware answers
\* 403 leaves the users, the transactions, the calls at the gateway and the
\* requests under way as they are; roleMiddleware answers only a requester
\* whose token passed authMiddleware; and a handler of /api/payments starts,
\* and answers, only for a requester whose token passed authMiddleware and
\* whose stored role is one the route names, admin alone for GET /all.
C36_RefusedHasNoEffect ==
    [][LET passed(id) == \E t \in held : t.id = id /\ AuthMiddleware(Bearer(t)).code = 0
           named(op, id) == users[id].role \in IF op = "all" THEN {"admin"}
                                                             ELSE {"user", "admin"}
           refused == \/ out'.op = "auth"
                      \/ out'.code = 403 /\ out'.message = MsgAccessDenied
       IN  /\ refused => /\ users' = users /\ txs' = txs /\ wire' = wire
                         /\ reqs' = reqs /\ held' = held
                         /\ out'.data = Null
           /\ out'.op = "auth" => out'.code = 401 /\ out'.by = "none"
           /\ out'.code = 403 /\ out'.message = MsgAccessDenied
                 => passed(out'.by) /\ ~named(out'.op, out'.by)
           /\ out'.op \in {"initiate", "verify", "mine", "all"} /\ ~refused
                 => passed(out'.by) /\ named(out'.op, out'.by)
           /\ \A r \in ReqIds :
                 reqs[r].pc = "idle" /\ reqs'[r].pc # "idle"
                     => passed(reqs'[r].user.id) /\ users[reqs'[r].user.id].role \in Roles
      ]_vars

\* C36, witness: authMiddleware has answered 401 while a call of another
\* request is at the gateway, and the call is still there
C36_RefusedWhileCalling ==
    /\ out.op = "auth" /\ out.code = 401
    /\ wire # {}
    /\ \E r \in ReqIds : reqs[r].pc \in {"awaitInit", "awaitVerify"}
    /\ txs # <<>>

\* C37: whatever role its body asks for, a user that register stores has the
\* role user; no step of a request changes the role of a stored user or
\* removes a user; so the admins are the users that were admin from the
\* start, and GET /all answers 200 to them alone.
C37_RegisterMakesUsers ==
    [][/\ \A u \in DOMAIN users' \ DOMAIN users : users'[u].role = "user"
       /\ \A u \in DOMAIN users :
             u \in DOMAIN users' /\ users'[u].role = users[u].role
       /\ \A u \in DOMAIN users : users[u].role = "admin" => u = "a1"
       /\ out'.op = "all" /\ out'.code = 200 => out'.by = "a1"
      ]_vars

\* C37, witness: a user registered with a body that asks for the role admin
\* is stored with the role user
C37_AskedForAdminMadeUser ==
    /\ out.op = "register" /\ out.code = 201
    /\ out.arg.role = "admin"
    /\ out.data.user.role = "user"
    /\ users[out.data.user.id].role = "user"

\* C38 as stated: in every state the amount of every stored transaction is an
\* integer of at least 1.
C38_AmountsArePositiveIntegers ==
    \A n \in 1..Len(txs) : txs[n].amount # InfiniteAmount /\ txs[n].amount >= 1

\* C39: no step removes a stored transaction or changes its owner, its amount
\* or its reference; and a step that changes a stored transaction is the step
\* of a verify request on the reference of that transaction or of the
\* initiate request that created it.
C39_OnlyStatusAndPayload ==
    [][/\ Len(txs') >= Len(txs)
       /\ \A n \in 1..Len(txs) :
             /\ txs'[n].user = txs[n].user
             /\ txs'[n].amount = txs[n].amount
             /\ txs'[n].reference = txs[n].reference
             /\ txs'[n].id = txs[n].id
             /\ txs'[n] # txs[n]
                   => \/ out'.op = "verify" /\ out'.arg.ref = txs[n].reference
                      \/ /\ out'.op = "initiate"
                         /\ \E r \in ReqIds :
                               /\ reqs[r].pc \in {"created", "awaitInit"}
                               /\ reqs'[r].pc = "idle"
                               /\ reqs[r].doc.reference = txs[n].reference
      ]_vars

\* C39, witness: a verify request has changed one of two stored transactions
\* of the same owner, and the other one is as it was created
C39_OtherUntouched ==
    /\ Len(txs) = 2
    /\ out.op = "verify"
    /\ \E n \in 1..2 : \E m \in (1..2) \ {n} :
          /\ txs[n].reference = out.arg.ref
          /\ txs[n].status = "success"
          /\ txs[m].user = txs[n].user
          /\ txs[m] = NewTx(m, txs[m].user, txs[m].amount, txs[m].reference)

\* C40: while the Paystack key is not set or has another prefix than sk_test_
\* or sk_live_, nothing is put on the wire, and a verify by the owner or an
\* admin of a transaction that is stored as pending is answered 500 with the
\* configuration error in the same step, in which the transaction is saved
\* with status failed and that error as its payload.
C40_BadKeyVerifyFails ==
    [][(secretKey = <<>> \/ secretKey[1] \notin {"sk_test_", "sk_live_"})
          => /\ wire' = {}
             /\ \A n \in 1..Len(txs) :
                   ( /\ out'.op = "verify"
                     /\ out'.arg.ref = txs[n].reference
                     /\ txs[n].status = "pending"
                     /\ out'.by \in DOMAIN users
                     /\ ~NotPermitted(txs[n], ReqUser(out'.by)) )
                   => /\ out'.code = 500
                      /\ out'.message = IF secretKey = <<>> THEN MsgKeyNotSet
                                                            ELSE MsgKeyFormat
                      /\ txs'[n].status = "failed"
                      /\ txs'[n].paystackData = ErrorPayload(out'.message)
                      /\ reqs' = reqs
      ]_vars

\* C40, witness: with no key set, a verify has been answered 500 for a
\* transaction whose initiate has not yet called the gateway, and the
\* transaction is stored as failed
C40_PendingMadeFailed ==
    /\ secretKey = <<>>
    /\ out.op = "verify" /\ out.code = 500 /\ out.message = MsgKeyNotSet
    /\ \E r \in ReqIds :
          /\ reqs[r].pc = "created"
          /\ reqs[r].doc.reference = out.arg.ref
          /\ reqs[r].doc.status = "pending"
          /\ txs[reqs[r].doc.id].status = "failed"

====
